---- MODULE Spec2Model ----
(***************************************************************************)
(* Authentication core of api-auth-nestjs-base: AuthService.signUp, the    *)
(* passport-jwt JwtStrategy, and the AuthGuard()-protected route           *)
(* GET /auth/private of AuthController.                                    *)
(*                                                                         *)
(* Requests are handled concurrently: every request occupies a slot of     *)
(* Reqs and advances one step per await point of its handler.              *)
(***************************************************************************)
EXTENDS Integers, Sequences, FiniteSets, TLC

\* ------------------------------------------------------------------ bounds
\* The clock runs from 0 to MaxTime.
MaxTime == 1

\* ------------------------------------------------------------------ data
Reqs == {"r1", "r2"}

Emails == {"a@x.com", "b@x.com"}
Passwords == {"secret123"}
Salts == {"saltA"}
FullNames == {"Ann"}
\* The role sets a user may hold: the default of a new user, and what an
\* administrator hands out.
RoleSets == {{"user"}, {"admin", "user"}}

\* Option values: {} is null/undefined, {v} is the value v.
Null == {}
Some(v) == {v}
The(o) == CHOOSE v \in o : TRUE

VARIABLES
    store,        \* the rows of the users table
    nextId,       \* the next id the store generates
    secretOrKey,  \* JwtStrategy's verification key (process.env.JWT_SECRET)
    now,          \* the clock, in token-lifetime units
    console,      \* what console.error has written
    req           \* per slot: the request in flight and its progress

vars == <<store, nextId, secretOrKey, now, console, req>>

\* ------------------------------------------------------------ responses
StatusOK == 200
StatusCreated == 201
StatusBadRequest == 400
StatusUnauthorized == 401
StatusForbidden == 403
StatusInternalServerError == 500

\* An HttpException as the client receives it.
HttpException(status, message) == [status |-> status, message |-> message]

\* --------------------------------------------------------- Password Hasher
\* bcrypt.hashSync(password, 10): "$2b$<cost>$<salt><digest>", the salt drawn
\* at random by the library.
BcryptRounds == 10

hashSync(password, rounds, salt) ==
    CASE password = "secret123" /\ rounds = 10 /\ salt = "saltA"
             -> "$2b$10$saltA.Kq9digest-secret123"
      [] password = "secret123" /\ rounds = 10 /\ salt = "saltB"
             -> "$2b$10$saltB.Zr4digest-secret123"
      [] OTHER -> "$2b$??$unmodelled"

\* --------------------------------------------------------- Credential Store
\* A row of the users table.
User(id, email, password, fullName, roles, isActive) ==
    [id |-> id, email |-> email, password |-> password, fullName |-> fullName,
     roles |-> roles, isActive |-> isActive]

\* A slip: the where clause is lost and the first row of the table returned.
findOneByNoWhere(repo, email) ==
    IF repo = {} THEN Null
    ELSE Some(CHOOSE u \in repo : \A v \in repo : u.id <= v.id)

\* Repository.findOneBy({ email }): the row with that email, or null.
findOneBy(repo, email) ==
    LET rows == {u \in repo : u.email = email}
    IN  IF rows = {} THEN Null ELSE Some(CHOOSE u \in rows : TRUE)

\* The detail text of PostgreSQL's unique_violation on users.email.
UniqueViolationDetail(email) ==
    CASE email = "a@x.com" -> "Key (email)=(a@x.com) already exists."
      [] email = "b@x.com" -> "Key (email)=(b@x.com) already exists."
      [] OTHER -> "Key (email) already exists."

UniqueViolation(email) == [code |-> "23505", detail |-> UniqueViolationDetail(email)]

\* Any other failure of the store (here: the connection is gone).
ConnectionFailure == [code |-> "08006", detail |-> "connection failure"]

StoreFaults == {"none", "connection"}

\* A slip: the email column carries no unique constraint.
saveWithoutUnique(repo, entity, id, fault) ==
    IF fault # "none"
    THEN [rows |-> repo, error |-> Some(ConnectionFailure), saved |-> Null]
    ELSE LET row == User(id, entity.email, entity.password, entity.fullName, {"user"}, TRUE)
         IN  [rows |-> repo \cup {row}, error |-> Null, saved |-> Some(row)]

\* Repository.save(entity) as one atomic INSERT: the store generates the id
\* and the column defaults (isActive = true, roles = {user}), and refuses a second
\* row with the same email.
save(repo, entity, id, fault) ==
    IF fault # "none"
    THEN [rows |-> repo, error |-> Some(ConnectionFailure), saved |-> Null]
    ELSE IF \E u \in repo : u.email = entity.email
    THEN [rows |-> repo, error |-> Some(UniqueViolation(entity.email)), saved |-> Null]
    ELSE LET row == User(id, entity.email, entity.password, entity.fullName, {"user"}, TRUE)
         IN  [rows |-> repo \cup {row}, error |-> Null, saved |-> Some(row)]

\* ------------------------------------------------------------- AuthService
CreateUserDtos == [email : Emails, password : Passwords, fullName : FullNames]

\* A slip: the password goes into the entity as submitted.
createEntityPlain(dto, salt) ==
    [email |-> dto.email, fullName |-> dto.fullName, password |-> dto.password]

\* signUp up to its await: the entity built from the dto, the password
\* replaced by its hash.
createEntity(dto, salt) ==
    [email |-> dto.email, fullName |-> dto.fullName,
     password |-> hashSync(dto.password, BcryptRounds, salt)]

\* A slip: the password is not deleted from the returned user.
withPassword(user) == user

\* delete user.password; return user
withoutPassword(user) == [f \in DOMAIN user \ {"password"} |-> user[f]]

\* A slip: the unique-violation code is compared with the wrong SQLSTATE.
handleDBErrorWrongCode(error) ==
    IF error.code = "23502"
    THEN [thrown |-> Some(HttpException(StatusBadRequest, error.detail)), logged |-> {}]
    ELSE [thrown |-> Some(HttpException(StatusInternalServerError, "Please see server logs")),
          logged |-> {error}]

\* A slip: the unexpected error goes to the client instead of the log.
handleDBErrorLeaking(error) ==
    IF error.code = "23505"
    THEN [thrown |-> Some(HttpException(StatusBadRequest, error.detail)), logged |-> {}]
    ELSE [thrown |-> Some(HttpException(StatusInternalServerError, error.detail)),
          logged |-> {}]

\* A slip: the unexpected error is logged and nothing is thrown.
handleDBErrorReturning(error) ==
    IF error.code = "23505"
    THEN [thrown |-> Some(HttpException(StatusBadRequest, error.detail)), logged |-> {}]
    ELSE [thrown |-> Null, logged |-> {error}]

\* handleDBError: what is thrown to the client (the function never returns),
\* and what is logged.
handleDBError(error) ==
    IF error.code = "23505"
    THEN [thrown |-> Some(HttpException(StatusBadRequest, error.detail)), logged |-> {}]
    ELSE [thrown |-> Some(HttpException(StatusInternalServerError, "Please see server logs")),
          logged |-> {error}]

\* signIn: the credentials a client may submit.
LoginPasswords == Passwords \cup {"wrong-pass"}
LoginUserDtos == [email : Emails, password : LoginPasswords]

\* AuthController.signIn: `return this.authService.signIn(loginUserDto)`.
\* The AuthService class defines signUp and handleDBError and no signIn, so
\* authService.signIn is undefined and calling it throws a TypeError,
\* whatever the credentials.
signIn(loginUserDto) ==
    [value |-> Null,
     thrown |-> Some([name |-> "TypeError",
                      message |-> "this.authService.signIn is not a function"])]

\* -------------------------------------------------------------- JwtStrategy
\* The compact tokens a client may present, and what each decodes to:
\* the subject email, the exp claim, and the secret that signed it.
JwtTokens ==
    {"jwt.a.exp1", "jwt.a.exp2", "jwt.a.exp3", "jwt.b.exp1", "jwt.b.exp2", "jwt.b.exp3",
     "jwt.a.forged", "not-a-jwt"}

jwtDecode(token) ==
    CASE token = "jwt.a.exp1"   -> Some([email |-> "a@x.com", exp |-> 1, signedWith |-> "jwt-secret"])
      [] token = "jwt.a.exp2"   -> Some([email |-> "a@x.com", exp |-> 2, signedWith |-> "jwt-secret"])
      [] token = "jwt.a.exp3"   -> Some([email |-> "a@x.com", exp |-> 3, signedWith |-> "jwt-secret"])
      [] token = "jwt.b.exp1"   -> Some([email |-> "b@x.com", exp |-> 1, signedWith |-> "jwt-secret"])
      [] token = "jwt.b.exp2"   -> Some([email |-> "b@x.com", exp |-> 2, signedWith |-> "jwt-secret"])
      [] token = "jwt.b.exp3"   -> Some([email |-> "b@x.com", exp |-> 3, signedWith |-> "jwt-secret"])
      [] token = "jwt.a.forged" -> Some([email |-> "a@x.com", exp |-> 1, signedWith |-> "other-secret"])
      [] OTHER -> Null

\* String.prototype.toLowerCase on the header names and schemes in use.
toLowerCase(s) ==
    CASE s = "Authorization" -> "authorization"
      [] s = "Host" -> "host"
      [] s = "Bearer" -> "bearer"
      [] s = "Basic" -> "basic"
      [] OTHER -> s

\* request.headers[name]: rawHeaders is the flat list name, value, name,
\* value, ...; a value is its whitespace-separated words.  Names are matched
\* in lower case and the first authorization header wins.
headerValue(rawHeaders, name) ==
    LET at == {i \in 1..(Len(rawHeaders) \div 2) : toLowerCase(rawHeaders[2 * i - 1]) = name}
    IN  IF at = {} THEN Null
        ELSE Some(rawHeaders[2 * (CHOOSE i \in at : \A j \in at : i <= j)])

\* A slip: the scheme of the header is not compared.
fromAuthHeaderAnyScheme(rawHeaders) ==
    LET header == headerValue(rawHeaders, "authorization")
    IN  IF header = Null THEN Null
        ELSE LET words == The(header)
             IN  IF Len(words) >= 2 THEN Some(words[2]) ELSE Null

\* ExtractJwt.fromAuthHeaderAsBearerToken(): "<scheme> <value>" with the
\* scheme equal to "bearer" whatever its case; null otherwise.
fromAuthHeaderAsBearerToken(rawHeaders) ==
    LET header == headerValue(rawHeaders, "authorization")
    IN  IF header = Null THEN Null
        ELSE LET words == The(header)
             IN  IF Len(words) >= 2 /\ toLowerCase(words[1]) = "bearer"
                 THEN Some(words[2])
                 ELSE Null

\* A slip: the strategy is configured with ignoreExpiration.
jwtVerifyIgnoringExpiration(token, key, clock) ==
    LET decoded == jwtDecode(token)
    IN  IF decoded = Null THEN Null
        ELSE LET jwt == The(decoded)
             IN  IF jwt.signedWith # key THEN Null
                 ELSE Some([email |-> jwt.email, exp |-> jwt.exp])

\* jsonwebtoken's verify as the strategy is configured (secretOrKey, no
\* ignoreExpiration): the payload, or null when the token is malformed, is
\* signed with another secret, or has expired.
jwtVerify(token, key, clock) ==
    LET decoded == jwtDecode(token)
    IN  IF decoded = Null THEN Null
        ELSE LET jwt == The(decoded)
             IN  IF jwt.signedWith # key THEN Null
                 ELSE IF clock >= jwt.exp THEN Null
                 ELSE Some([email |-> jwt.email, exp |-> jwt.exp])

\* A slip: the two checks answer with each other's message.
validateSwappingMessages(payload, repo) ==
    LET user == findOneBy(repo, payload.email)
    IN  IF user = Null
        THEN [user |-> Null,
              thrown |-> Some(HttpException(StatusUnauthorized,
                                            "User is inactive, talk with an admin"))]
        ELSE IF ~The(user).isActive
        THEN [user |-> Null,
              thrown |-> Some(HttpException(StatusUnauthorized, "Token not valid"))]
        ELSE [user |-> user, thrown |-> Null]

\* A slip: the isActive check is left out.
validateSkippingIsActive(payload, repo) ==
    LET user == findOneBy(repo, payload.email)
    IN  IF user = Null
        THEN [user |-> Null,
              thrown |-> Some(HttpException(StatusUnauthorized, "Token not valid"))]
        ELSE [user |-> user, thrown |-> Null]

\* JwtStrategy.validate once findOneBy has answered: the principal, or the
\* exception thrown.
validate(payload, repo) ==
    LET user == findOneBy(repo, payload.email)
    IN  IF user = Null
        THEN [user |-> Null,
              thrown |-> Some(HttpException(StatusUnauthorized, "Token not valid"))]
        ELSE IF ~The(user).isActive
        THEN [user |-> Null,
              thrown |-> Some(HttpException(StatusUnauthorized,
                                            "User is inactive, talk with an admin"))]
        ELSE [user |-> user, thrown |-> Null]

\* ------------------------------------------------------- Authorization Guard
\* The role policy of a route: {} is a route without one, as /auth/private.
RolePolicies == {{}, {"admin"}}

\* A slip: the role check lets everyone through.
rolesAllowAnyone(required, user) == TRUE

\* The role check of a guard that requires `required`.
rolesAllow(required, user) == required = {} \/ required \cap user.roles # {}

\* ------------------------------------------------------ Claim Extraction
\* The attribute names a handler may ask GetUser for; "" asks for none.
AccessorKeys == {"", "fullName", "email"}

\* A slip: whatever attribute is named, the email is returned.
GetUserWrongAttribute(data, request) ==
    IF request.user = Null
    THEN [value |-> Null, thrown |-> Some("MissingContext")]
    ELSE [value |-> Some(IF data = "" THEN The(request.user)
                         ELSE The(request.user).email),
          thrown |-> Null]

\* GetUser(data): the attribute `data` of the request's user, or the whole
\* user when no attribute is named; MissingContext when the request carries
\* no user.
GetUser(data, request) ==
    IF request.user = Null
    THEN [value |-> Null, thrown |-> Some("MissingContext")]
    ELSE [value |-> Some(IF data = "" THEN The(request.user)
                         ELSE The(request.user)[data]),
          thrown |-> Null]

\* A slip: only the last header pair is kept.
RawHeadersLastPair(data, request) ==
    IF Len(request.rawHeaders) <= 2 THEN request.rawHeaders
    ELSE SubSeq(request.rawHeaders, Len(request.rawHeaders) - 1,
                Len(request.rawHeaders))

\* RawHeaders(data): req.rawHeaders.
RawHeaders(data, request) == request.rawHeaders

\* AuthController.testingPrivateRoute
testingPrivateRoute(user, rawHeader) ==
    [status |-> StatusOK, ok |-> TRUE, message |-> "Hi world.",
     user |-> user, rawHeader |-> rawHeader]

\* -------------------------------------------------------------- requests
\* The header lists a client may send.
RawHeaderChoices ==
    {<<"Host", <<"x.com">>>>,
     <<"Authorization", <<"Bearer">>>>,
     <<"Authorization", <<"Basic", "jwt.a.exp1">>>>,
     <<"authorization", <<"bearer", "jwt.b.exp1">>>>,
     <<"Host", <<"x.com">>, "Authorization", <<"Bearer", "jwt.a.exp1">>>>,
     <<"Host", <<"x.com">>, "Authorization", <<"Bearer", "jwt.a.forged">>>>,
     <<"Host", <<"x.com">>, "Authorization", <<"Bearer", "not-a-jwt">>>>}

Idle ==
    [pc |-> "idle", rawHeaders |-> <<>>, required |-> {}, payload |-> Null,
     user |-> Null, entity |-> Null, login |-> Null, caught |-> Null, res |-> Null,
     ran |-> FALSE]

Init ==
    /\ store = {}
    /\ nextId = 1
    /\ secretOrKey = "jwt-secret"
    /\ now = 0
    /\ console = {}
    /\ req = [r \in Reqs |-> Idle]

\* GET /auth/private arrives (or a route guarded with a role policy).
Receive(r, rawHeaders, required) ==
    /\ req[r].pc = "idle"
    /\ req' = [req EXCEPT ![r] = [Idle EXCEPT !.pc = "Unchecked",
                                              !.rawHeaders = rawHeaders,
                                              !.required = required]]
    /\ UNCHANGED <<store, nextId, secretOrKey, now, console>>

\* AuthGuard() runs the strategy: extract the bearer token and verify it.
\* Without a verified payload the request ends with 401 Unauthorized.
Authenticate(r) ==
    /\ req[r].pc = "Unchecked"
    /\ LET token == fromAuthHeaderAsBearerToken(req[r].rawHeaders)
           payload == IF token = Null THEN Null
                      ELSE jwtVerify(The(token), secretOrKey, now)
       IN  req' = [req EXCEPT ![r] =
                IF payload = Null
                THEN [@ EXCEPT !.pc = "Rejected",
                               !.res = Some(HttpException(StatusUnauthorized, "Unauthorized"))]
                ELSE [@ EXCEPT !.pc = "Validating", !.payload = payload]]
    /\ UNCHANGED <<store, nextId, secretOrKey, now, console>>

\* A slip: the lookups share one connection, and a failure of it fails every
\* lookup that is pending.
ValidateFailingTogether(r, fault) ==
    /\ req[r].pc = "Validating"
    /\ req' = IF fault # "none"
              THEN [q \in Reqs |->
                      IF req[q].pc = "Validating"
                      THEN [req[q] EXCEPT !.pc = "Rejected",
                                          !.caught = Some(ConnectionFailure),
                                          !.res = Some(HttpException(StatusInternalServerError,
                                                                     "Internal server error"))]
                      ELSE req[q]]
              ELSE [req EXCEPT ![r] =
                      LET v == validate(The(req[r].payload), store)
                      IN  IF v.thrown # Null
                          THEN [@ EXCEPT !.pc = "Rejected", !.res = v.thrown]
                          ELSE [@ EXCEPT !.pc = "Authenticated", !.user = v.user]]
    /\ UNCHANGED <<store, nextId, secretOrKey, now, console>>

\* A slip: validate removes the row of a user it finds inactive.
ValidatePurging(r, fault) ==
    /\ req[r].pc = "Validating"
    /\ fault = "none"
    /\ LET v == validate(The(req[r].payload), store)
       IN  /\ req' = [req EXCEPT ![r] =
                 IF v.thrown # Null
                 THEN [@ EXCEPT !.pc = "Rejected", !.res = v.thrown]
                 ELSE [@ EXCEPT !.pc = "Authenticated", !.user = v.user]]
           /\ store' = {u \in store : u.email # The(req[r].payload).email \/ u.isActive}
    /\ UNCHANGED <<nextId, secretOrKey, now, console>>

\* validate(payload) resumes after its await: the store has answered, or the
\* lookup itself has failed.  On success the guard attaches the user.
Validate(r, fault) ==
    /\ req[r].pc = "Validating"
    /\ req' = [req EXCEPT ![r] =
          IF fault # "none"
          THEN [@ EXCEPT !.pc = "Rejected",
                         !.caught = Some(ConnectionFailure),
                         !.res = Some(HttpException(StatusInternalServerError,
                                                    "Internal server error"))]
          ELSE LET v == validate(The(req[r].payload), store)
               IN  IF v.thrown # Null
                   THEN [@ EXCEPT !.pc = "Rejected", !.res = v.thrown]
                   ELSE [@ EXCEPT !.pc = "Authenticated", !.user = v.user]]
    /\ UNCHANGED <<store, nextId, secretOrKey, now, console>>

\* The role policy is applied to the attached user.
RoleGuard(r) ==
    /\ req[r].pc = "Authenticated"
    /\ req' = [req EXCEPT ![r] =
          IF rolesAllow(req[r].required, The(req[r].user))
          THEN [@ EXCEPT !.pc = "Authorized"]
          ELSE [@ EXCEPT !.pc = "Forbidden",
                         !.res = Some(HttpException(StatusForbidden, "Forbidden"))]]
    /\ UNCHANGED <<store, nextId, secretOrKey, now, console>>

\* A slip: the handler is dispatched once the user is attached, before the
\* role policy has been applied.
HandlerBeforeRoleGuard(r) ==
    /\ req[r].pc \in {"Authenticated", "Authorized"}
    /\ req[r].res = Null
    /\ req' = [req EXCEPT ![r] =
          [@ EXCEPT !.ran = TRUE,
                    !.res = Some(testingPrivateRoute(
                                   The(GetUser("fullName", req[r]).value),
                                   RawHeaders("", req[r])))]]
    /\ UNCHANGED <<store, nextId, secretOrKey, now, console>>

\* The wrapped operation runs.
Handler(r) ==
    /\ req[r].pc = "Authorized"
    /\ req[r].res = Null
    /\ req' = [req EXCEPT ![r] =
          [@ EXCEPT !.ran = TRUE,
                    !.res = Some(testingPrivateRoute(
                                   The(GetUser("fullName", req[r]).value),
                                   RawHeaders("", req[r])))]]
    /\ UNCHANGED <<store, nextId, secretOrKey, now, console>>

\* A request arrives at a route that no guard protects.
ReceiveOpen(r, rawHeaders) ==
    /\ req[r].pc = "idle"
    /\ req' = [req EXCEPT ![r] = [Idle EXCEPT !.pc = "Open",
                                              !.rawHeaders = rawHeaders]]
    /\ UNCHANGED <<store, nextId, secretOrKey, now, console>>

\* A handler with the parameters @GetUser(data) and @RawHeaders(data) is
\* dispatched, on an open route or behind the guard: the two accessors are
\* applied to the request and their results kept.
Access(r, data) ==
    /\ req[r].pc \in {"Open", "Authorized"}
    /\ req[r].res = Null
    /\ req' = [req EXCEPT ![r] =
          [@ EXCEPT !.pc = "Accessed",
                    !.ran = TRUE,
                    !.res = Some([data |-> data,
                                  user |-> GetUser(data, req[r]),
                                  rawHeader |-> RawHeaders(data, req[r])])]]
    /\ UNCHANGED <<store, nextId, secretOrKey, now, console>>

\* POST /auth/signup: signUp runs up to `await this.userRepository.save(user)`.
SignUpCall(r, dto, salt) ==
    /\ req[r].pc = "idle"
    /\ req' = [req EXCEPT ![r] = [Idle EXCEPT !.pc = "Saving",
                                              !.entity = Some(createEntity(dto, salt))]]
    /\ UNCHANGED <<store, nextId, secretOrKey, now, console>>

\* What signUp returns when control leaves its try/catch.
FallThrough == [status |-> StatusCreated, body |-> "This action adds a new auth"]

\* The insert is done or refused, and signUp returns or throws.
SignUpSave(r, fault) ==
    /\ req[r].pc = "Saving"
    /\ LET s == save(store, The(req[r].entity), nextId, fault)
       IN  /\ store' = s.rows
           /\ nextId' = IF s.saved # Null THEN nextId + 1 ELSE nextId
           /\ IF s.error = Null
              THEN /\ req' = [req EXCEPT ![r] =
                        [@ EXCEPT !.pc = "Returned",
                                  !.res = Some([status |-> StatusCreated,
                                                user |-> withoutPassword(The(s.saved))])]]
                   /\ console' = console
              ELSE LET h == handleDBError(The(s.error))
                   IN  /\ req' = [req EXCEPT ![r] =
                             [@ EXCEPT !.pc = "Returned", !.caught = s.error,
                                       !.res = IF h.thrown # Null THEN h.thrown
                                               ELSE Some(FallThrough)]]
                       /\ console' = console \cup h.logged
    /\ UNCHANGED <<secretOrKey, now>>

\* POST /auth/signin: the controller's call throws, and the exception filter
\* answers an error that is not an HttpException with 500 'Internal server
\* error'.
SignIn(r, dto) ==
    /\ req[r].pc = "idle"
    /\ req' = [req EXCEPT ![r] =
          [Idle EXCEPT !.pc = "SignedIn",
                       !.login = Some(dto),
                       !.res = IF signIn(dto).thrown # Null
                               THEN Some(HttpException(StatusInternalServerError,
                                                       "Internal server error"))
                               ELSE signIn(dto).value]]
    /\ UNCHANGED <<store, nextId, secretOrKey, now, console>>

\* The response is sent and the request's context is discarded.
Close(r) ==
    /\ req[r].res # Null
    /\ req' = [req EXCEPT ![r] = Idle]
    /\ UNCHANGED <<store, nextId, secretOrKey, now, console>>

\* An administrator, outside this core, sets a user's roles and active flag.
AdminUpdate(email, roles, isActive) ==
    /\ \E u \in store :
          /\ u.email = email
          /\ <<u.roles, u.isActive>> # <<roles, isActive>>
          /\ store' = (store \ {u}) \cup {[u EXCEPT !.roles = roles, !.isActive = isActive]}
    /\ UNCHANGED <<nextId, secretOrKey, now, console, req>>

\* Time passes.
Tick ==
    /\ now < MaxTime
    /\ now' = now + 1
    /\ UNCHANGED <<store, nextId, secretOrKey, console, req>>

Next ==
    \/ \E r \in Reqs, h \in RawHeaderChoices, p \in RolePolicies : Receive(r, h, p)
    \/ \E r \in Reqs : Authenticate(r)
    \/ \E r \in Reqs, f \in StoreFaults : Validate(r, f)
    \/ \E r \in Reqs : RoleGuard(r)
    \/ \E r \in Reqs : Handler(r)
    \/ \E r \in Reqs, d \in CreateUserDtos, s \in Salts : SignUpCall(r, d, s)
    \/ \E r \in Reqs, f \in StoreFaults : SignUpSave(r, f)
    \/ \E r \in Reqs, d \in LoginUserDtos : SignIn(r, d)
    \/ \E r \in Reqs : Close(r)
    \/ \E e \in Emails, ro \in RoleSets, a \in BOOLEAN : AdminUpdate(e, ro, a)
    \/ Tick

Spec == Init /\ [][Next]_vars

\* The event loop runs every continuation that is ready, and the store
\* answers every lookup or fails it: a request in flight is not left waiting
\* for ever.
GuardStep(r) ==
    \/ Authenticate(r)
    \/ \E f \in StoreFaults : Validate(r, f)
    \/ RoleGuard(r)
    \/ Handler(r)

\* The protected route on its own, over a store as earlier signUps and the
\* administrator have left it: no user; one user; an admin and a
\* deactivated user.
GuardStores ==
    {{},
     {User(1, "a@x.com", hashSync("secret123", BcryptRounds, "saltA"), "Ann", {"user"}, TRUE)},
     {User(1, "a@x.com", hashSync("secret123", BcryptRounds, "saltA"), "Ann",
           {"admin", "user"}, TRUE),
      User(2, "b@x.com", hashSync("secret123", BcryptRounds, "saltA"), "Ann", {"user"}, FALSE)}}

GuardInit ==
    /\ store \in GuardStores
    /\ nextId = Cardinality(store) + 1
    /\ secretOrKey = "jwt-secret"
    /\ now = 0
    /\ console = {}
    /\ req = [r \in Reqs |-> Idle]

GuardNext ==
    \/ \E r \in Reqs, h \in RawHeaderChoices, p \in RolePolicies : Receive(r, h, p)
    \/ \E r \in Reqs : Authenticate(r)
    \/ \E r \in Reqs, f \in StoreFaults : Validate(r, f)
    \/ \E r \in Reqs : RoleGuard(r)
    \/ \E r \in Reqs : Handler(r)
    \/ \E r \in Reqs : Close(r)
    \/ Tick

\* The accessors on their own: the protected route as above, and handlers
\* that apply GetUser and RawHeaders with every key, with and without a guard.
AccessorNext ==
    \/ GuardNext
    \/ \E r \in Reqs, h \in RawHeaderChoices : ReceiveOpen(r, h)
    \/ \E r \in Reqs, d \in AccessorKeys : Access(r, d)

AccessorSpec == GuardInit /\ [][AccessorNext]_vars

GuardFairSpec ==
    GuardInit /\ [][GuardNext]_vars /\ \A r \in Reqs : WF_vars(GuardStep(r))

\* ================================================================ claims
\* What the formulas below say about a request, in their own terms.

\* The request carries "Authorization: Bearer <token>" (in any letter case).
HasBearer(rawHeaders) ==
    \E i \in 1..(Len(rawHeaders) \div 2) :
        /\ rawHeaders[2 * i - 1] \in {"Authorization", "authorization"}
        /\ Len(rawHeaders[2 * i]) = 2
        /\ rawHeaders[2 * i][1] \in {"Bearer", "bearer"}

BearerOf(rawHeaders) ==
    LET i == CHOOSE j \in 1..(Len(rawHeaders) \div 2) :
                 rawHeaders[2 * j - 1] \in {"Authorization", "authorization"}
    IN  rawHeaders[2 * i][2]

\* The token is one the process signed, and it has (not) expired.
Genuine(token) == \E j \in jwtDecode(token) : j.signedWith = secretOrKey
ExpiredAt(token, clock) == \E j \in jwtDecode(token) : clock >= j.exp
SubjectOf(token) == (CHOOSE j \in jwtDecode(token) : TRUE).email

Unauthorized(message) == Some([status |-> 401, message |-> message])

\* The store has answered the request's query: no error, or the refusal of a
\* duplicate, but not a failure of the store itself.
Answered(q) == \A e \in q.caught : e.code = "23505"

\* Slot r takes the step that ends its stage `pc`.
Leaves(r, pc) == req[r].pc = pc /\ req'[r].pc # pc

\* The rows of `repo` with the email `email`.
RowsOf(repo, email) == {u \in repo : u.email = email}

\* C1: every validation resolves the user from the store as it is at that
\* moment: whenever the store answers the lookup, a token whose subject is
\* active is accepted with that user as principal, and a token whose subject
\* is inactive is refused with 401 'User is inactive, talk with an admin',
\* whatever earlier validations of the same token returned.
C1_DeactivationTakesEffectAtOnce ==
    [][\A r \in Reqs :
          (Leaves(r, "Validating") /\ Answered(req'[r])) =>
              \A u \in RowsOf(store, The(req[r].payload).email) :
                  /\ u.isActive =>
                        /\ req'[r].pc = "Authenticated"
                        /\ req'[r].user = Some(u)
                  /\ ~u.isActive =>
                        /\ req'[r].pc = "Rejected"
                        /\ req'[r].user = Null
                        /\ req'[r].res =
                             Unauthorized("User is inactive, talk with an admin")]_vars

\* C1 witness: the same unexpired token was accepted for one request and,
\* the user deactivated meanwhile, refused as inactive for the next.
C1_Witness ==
    \E r1, r2 \in Reqs :
        /\ req[r1].rawHeaders = req[r2].rawHeaders
        /\ HasBearer(req[r1].rawHeaders)
        /\ ~ExpiredAt(BearerOf(req[r1].rawHeaders), now)
        /\ req[r1].pc \in {"Authenticated", "Authorized"}
        /\ req[r2].pc = "Rejected"
        /\ req[r2].res = Unauthorized("User is inactive, talk with an admin")

\* C2: a protected request without a bearer token, with a malformed
\* Authorization header, with a token that is malformed, forged or expired,
\* or whose subject is absent or inactive, ends Rejected with 401; a
\* Rejected request never reaches the handler, and the handler runs only
\* for a request the guard has authorized with a resolved user.
C2_GuardShortCircuits ==
    [][\A r \in Reqs :
          /\ (Leaves(r, "Unchecked") /\
                (\/ ~HasBearer(req[r].rawHeaders)
                 \/ ~Genuine(BearerOf(req[r].rawHeaders))
                 \/ ExpiredAt(BearerOf(req[r].rawHeaders), now)))
               => /\ req'[r].pc = "Rejected"
                  /\ \E e \in req'[r].res : e.status = 401
          /\ (Leaves(r, "Validating") /\ Answered(req'[r]) /\
                (\A u \in RowsOf(store, The(req[r].payload).email) : ~u.isActive))
               => /\ req'[r].pc = "Rejected"
                  /\ \E e \in req'[r].res : e.status = 401
          /\ req'[r].pc = "Rejected" => ~req'[r].ran
          /\ req[r].pc = "Rejected" => req'[r].pc \in {"Rejected", "idle"}
          /\ (req'[r].ran /\ ~req[r].ran) =>
                /\ req[r].pc = "Authorized"
                /\ req[r].user # Null]_vars

\* C2 witness: one request was refused 401 for want of a bearer token and
\* another because its user is inactive; the handler ran for neither.
C2_Witness ==
    \E r1, r2 \in Reqs :
        /\ req[r1].pc = "Rejected" /\ ~HasBearer(req[r1].rawHeaders)
        /\ req[r1].res = Unauthorized("Unauthorized") /\ ~req[r1].ran
        /\ req[r2].pc = "Rejected" /\ HasBearer(req[r2].rawHeaders)
        /\ req[r2].res = Unauthorized("User is inactive, talk with an admin")
        /\ ~req[r2].ran

\* C3: a signUp whose email is already in the store leaves the store as it
\* was and, the store having checked the insert, fails with 400 Bad Request
\* (the store itself failing, the call fails with 500 instead).
C3_DuplicateSignUpRefused ==
    [][\A r \in Reqs :
          (Leaves(r, "Saving") /\ RowsOf(store, The(req[r].entity).email) # {}) =>
              /\ store' = store
              /\ nextId' = nextId
              /\ \E e \in req'[r].res :
                    IF Answered(req'[r]) THEN e.status = 400 ELSE e.status = 500]_vars

\* C3 witness: a signUp with a registered email was refused with 400.
C3_Witness ==
    \E r \in Reqs :
        /\ req[r].pc = "Returned"
        /\ \E e \in req[r].res : e.status = 400
        /\ RowsOf(store, The(req[r].entity).email) # {}

\* C4: no two rows of the store share an email; an insert succeeds exactly
\* when the store answers and holds no row with that email yet, and is
\* refused with 400 exactly when it holds one: of the signUp calls racing
\* with one email the first to reach the store wins, every other observes
\* the constraint violation.
C4_OneWinnerPerEmail ==
    [][/\ \A u, v \in store' : u.email = v.email => u = v
       /\ \A r \in Reqs :
             Leaves(r, "Saving") =>
                LET email == The(req[r].entity).email
                    status == The(req'[r].res).status
                IN  /\ status \in {201, 400, 500}
                    /\ Answered(req'[r]) =>
                          /\ status = 201 <=> RowsOf(store, email) = {}
                          /\ status = 400 <=> RowsOf(store, email) # {}
                    /\ status = 201 => Cardinality(RowsOf(store', email)) = 1
       /\ \A r1, r2 \in Reqs :
             (/\ r1 # r2
              /\ req'[r1].pc = "Returned" /\ req'[r2].pc = "Returned"
              /\ The(req'[r1].entity).email = The(req'[r2].entity).email)
             => ~(The(req'[r1].res).status = 201 /\ The(req'[r2].res).status = 201)]_vars

\* C4 witness: two signUp calls with one email have returned, one with the
\* created user, the other with 400, and the store holds one row for it.
C4_Witness ==
    \E r1, r2 \in Reqs :
        /\ req[r1].pc = "Returned" /\ req[r2].pc = "Returned"
        /\ The(req[r1].entity).email = The(req[r2].entity).email
        /\ The(req[r1].res).status = 201
        /\ The(req[r2].res).status = 400
        /\ Cardinality(RowsOf(store, The(req[r1].entity).email)) = 1

\* C5: a request whose resolved, active user holds none of the roles the
\* guard requires ends Forbidden with 403 (not 401), and the wrapped
\* operation does not run for it.
C5_RolePolicyForbids ==
    \A r \in Reqs :
        /\ (/\ req[r].user # Null
            /\ req[r].required # {}
            /\ req[r].required \cap The(req[r].user).roles = {}
            /\ req[r].pc # "Authenticated")
           => /\ req[r].pc = "Forbidden"
              /\ \E e \in req[r].res : e.status = 403 /\ e.status # 401
              /\ ~req[r].ran
        /\ req[r].pc = "Forbidden" => ~req[r].ran

\* C5 witness: an active user without the admin role was refused with 403
\* on a route that requires admin.
C5_Witness ==
    \E r \in Reqs :
        /\ req[r].pc = "Forbidden"
        /\ req[r].required = {"admin"}
        /\ \E u \in req[r].user : u.isActive /\ "admin" \notin u.roles
        /\ \E e \in req[r].res : e.status = 403
        /\ ~req[r].ran

\* C6: the user a successful signUp returns has no password (or
\* passwordHash) field, while the row it created holds the bcrypt hash that
\* signUp computed.
C6_ReturnedUserHasNoPassword ==
    \A r \in Reqs :
        (req[r].pc = "Returned" /\ The(req[r].res).status = 201) =>
            LET returned == The(req[r].res).user
            IN  /\ DOMAIN returned \cap {"password", "passwordHash"} = {}
                /\ \E row \in store :
                      /\ row.id = returned.id
                      /\ row.email = returned.email
                      /\ row.password = The(req[r].entity).password
                      /\ \E p \in Passwords, s \in Salts :
                            row.password = hashSync(p, BcryptRounds, s)

\* C6 witness: a signUp has returned the user it created.
C6_Witness ==
    \E r \in Reqs :
        /\ req[r].pc = "Returned"
        /\ The(req[r].res).status = 201
        /\ The(req[r].res).user.email \in {u.email : u \in store}

\* What the store says of itself in its errors.
StoreErrorDetails ==
    {UniqueViolationDetail(e) : e \in Emails} \cup {ConnectionFailure.detail}

\* C7: no error sent to the client by signUp or by token validation carries
\* a password hash, a secret, or the store's own error detail.
C7_ErrorsCarryNoStoreDetail ==
    \A r \in Reqs :
        \A e \in req[r].res :
            e.status >= 400 =>
                /\ e.message \notin StoreErrorDetails
                /\ e.message \notin {u.password : u \in store} \cup Passwords
                /\ e.message # secretOrKey

\* C8: a token whose exp has passed is refused with 401 when the guard
\* verifies it, whoever signed it and whether or not its subject is an
\* existing active user; it never comes to validate's lookup.
C8_ExpiredTokenRefused ==
    [][\A r \in Reqs :
          (/\ Leaves(r, "Unchecked")
           /\ HasBearer(req[r].rawHeaders)
           /\ ExpiredAt(BearerOf(req[r].rawHeaders), now))
          => /\ req'[r].pc = "Rejected"
             /\ req'[r].payload = Null
             /\ req'[r].user = Null
             /\ req'[r].res = Unauthorized("Unauthorized")]_vars

\* C8 witness: a token the process signed was refused once expired, its
\* subject an active user of the store.
C8_Witness ==
    \E r \in Reqs :
        /\ req[r].pc = "Rejected"
        /\ HasBearer(req[r].rawHeaders)
        /\ Genuine(BearerOf(req[r].rawHeaders))
        /\ ExpiredAt(BearerOf(req[r].rawHeaders), now)
        /\ req[r].res = Unauthorized("Unauthorized")
        /\ \E u \in store : u.email = SubjectOf(BearerOf(req[r].rawHeaders)) /\ u.isActive

\* C9: when the store answers that no user has the email of a verified
\* token, validate fails with 401 'Token not valid': it returns no principal
\* and does not answer with the inactive-user message.
C9_AbsentUserRefused ==
    [][\A r \in Reqs :
          (/\ Leaves(r, "Validating")
           /\ Answered(req'[r])
           /\ RowsOf(store, The(req[r].payload).email) = {})
          => /\ req'[r].pc = "Rejected"
             /\ req'[r].user = Null
             /\ req'[r].res = Unauthorized("Token not valid")
             /\ req'[r].res # Unauthorized("User is inactive, talk with an admin")]_vars

\* C9 witness: a verified token was refused with 'Token not valid', the
\* store holding no user with its email.
C9_Witness ==
    \E r \in Reqs :
        /\ req[r].pc = "Rejected"
        /\ req[r].payload # Null
        /\ RowsOf(store, The(req[r].payload).email) = {}
        /\ req[r].res = Unauthorized("Token not valid")

\* C10: the guard's verification and validate change neither the store nor
\* the signing key, whether they accept the token or refuse it.
C10_ValidationReadsOnly ==
    [][\A r \in Reqs :
          (Leaves(r, "Unchecked") \/ Leaves(r, "Validating")) =>
              /\ store' = store
              /\ nextId' = nextId
              /\ secretOrKey' = secretOrKey]_vars

\* C10 witness: with users in the store, validate has accepted one token
\* and refused another.
C10_Witness ==
    \E r1, r2 \in Reqs :
        /\ store # {}
        /\ req[r1].pc = "Authenticated"
        /\ req[r2].pc = "Rejected" /\ req[r2].payload # Null

\* The states of the guard's state machine; a request whose token is
\* verified and whose user is being looked up is still Unchecked.
GuardState(q) == IF q.pc = "Validating" THEN "Unchecked" ELSE q.pc
GuardTerminal == {"Authorized", "Rejected", "Forbidden"}
GuardStates == {"Unchecked", "Authenticated"} \cup GuardTerminal
GuardTransitions ==
    {<<"idle", "Unchecked">>,
     <<"Unchecked", "Authenticated">>, <<"Unchecked", "Rejected">>,
     <<"Authenticated", "Authorized">>, <<"Authenticated", "Forbidden">>}
    \cup {<<t, "idle">> : t \in GuardTerminal}

\* C11: a protected request moves only along Unchecked -> {Authenticated,
\* Rejected} and Authenticated -> {Authorized, Forbidden}; it reaches one of
\* Authorized, Rejected, Forbidden and stays there until the request ends;
\* the wrapped operation runs for an Authorized request, and the request
\* ends having run it exactly when it is Authorized.
C11_GuardStateMachine ==
    /\ [][\A r \in Reqs :
             LET from == GuardState(req[r])
                 to == GuardState(req'[r])
             IN  /\ (from # to /\ {from, to} \cap GuardStates # {})
                      => <<from, to>> \in GuardTransitions
                 /\ from \in GuardTerminal => to \in {from, "idle"}
                 /\ (req[r].ran /\ to # "idle") => req'[r].ran
                 /\ req'[r].ran => to = "Authorized"
                 /\ (from \in GuardTerminal /\ to = "idle") =>
                       (req[r].ran <=> from = "Authorized")]_vars
    /\ \A r \in Reqs :
          /\ (req[r].pc = "Unchecked") ~> (req[r].pc \in GuardTerminal)
          /\ (req[r].pc = "Authorized") ~> req[r].ran

\* C11 witness: one request was authorized and the operation ran for it,
\* another was rejected and it did not.
C11_Witness ==
    \E r1, r2 \in Reqs :
        /\ req[r1].pc = "Authorized" /\ req[r1].ran
        /\ req[r2].pc \in {"Rejected", "Forbidden"} /\ ~req[r2].ran

\* C12: requests do not interfere.  A step of one request, a failed lookup
\* included, leaves every other request in flight exactly as it was, and a
\* lookup changes nothing the others depend on (store, key, clock); a
\* pending lookup never keeps another request's lookup from being answered;
\* a request whose lookup is answered is accepted exactly when the store
\* holds an active user with the email of its own token; and the user
\* attached to a request is the user of that request's own token.
C12_RequestsIndependent ==
    /\ [][\A r1, r2 \in Reqs :
             (r1 # r2 /\ req'[r1] # req[r1]) => req'[r2] = req[r2]]_vars
    /\ [][\A r \in Reqs :
             Leaves(r, "Validating") =>
                /\ <<store, nextId, secretOrKey, now, console>>' =
                      <<store, nextId, secretOrKey, now, console>>
                /\ Answered(req'[r]) =>
                      (req'[r].pc = "Authenticated" <=>
                          \E u \in RowsOf(store, The(req[r].payload).email) : u.isActive)
                /\ ~Answered(req'[r]) =>
                      (req'[r].pc = "Rejected" /\ The(req'[r].res).status = 500)]_vars
    /\ [](\A r \in Reqs :
             /\ req[r].pc = "Validating" => ENABLED Validate(r, "none")
             /\ \A u \in req[r].user :
                   /\ req[r].payload # Null
                   /\ u.email = The(req[r].payload).email)

\* C12 witness: of two requests with the same token one had its lookup fail
\* and ended with 500; the other was accepted as it would have been alone.
C12_Witness ==
    \E r1, r2 \in Reqs :
        /\ req[r1].rawHeaders = req[r2].rawHeaders
        /\ req[r1].pc = "Rejected"
        /\ req[r1].caught = Some(ConnectionFailure)
        /\ req[r2].pc = "Authorized" /\ req[r2].ran
        /\ \E u \in req[r2].user : u.email = The(req[r2].payload).email

\* C13: signIn with the email and the password of a user of the store
\* answers with a token and the user: the token is signed by the process,
\* has that email as its subject and has not expired; with an unknown email
\* or a wrong password it answers 401 and with no token.
C13_SignIn ==
    [][\A r \in Reqs :
          (req[r].pc = "idle" /\ req'[r].login # Null) =>
              LET dto == The(req'[r].login)
                  res == The(req'[r].res)
                  known == \E u \in store :
                              /\ u.email = dto.email
                              /\ u.password \in {hashSync(dto.password, BcryptRounds, s) : s \in Salts}
              IN  /\ known =>
                        /\ res.status < 400
                        /\ {"token", "user"} \subseteq DOMAIN res
                        /\ Genuine(res.token)
                        /\ SubjectOf(res.token) = dto.email
                        /\ ~ExpiredAt(res.token, now)
                        /\ res.user.email = dto.email
                        /\ "password" \notin DOMAIN res.user
                  /\ ~known =>
                        /\ res.status = 401
                        /\ "token" \notin DOMAIN res]_vars

\* The bcrypt hashes of cost 10.
Cost10Hashes ==
    {"$2b$10$saltA.Kq9digest-secret123", "$2b$10$saltB.Zr4digest-secret123"}

\* C14: the password of every row of the store, and of every entity signUp
\* is about to save, is a bcrypt hash of cost 10 and is not a plaintext
\* password a client submitted.
C14_StoredSecretIsHashed ==
    /\ \A u \in store :
          /\ u.password \in Cost10Hashes
          /\ u.password \notin Passwords \cup LoginPasswords
    /\ \A r \in Reqs :
          \A e \in req[r].entity :
              /\ e.password \in Cost10Hashes
              /\ e.password \notin Passwords

\* C14 witness: a signUp has saved its user.
C14_Witness ==
    \E r \in Reqs :
        /\ req[r].pc = "Returned"
        /\ The(req[r].res).status = 201
        /\ req[r].entity # Null
        /\ \E u \in store : u.password = The(req[r].entity).password

\* C15: when save fails with anything but the unique violation, signUp
\* answers 500 with the generic message 'Please see server logs', the error
\* is written to the server's log, and the store has no new row.
C15_StoreFailureIs500 ==
    [][\A r \in Reqs :
          (Leaves(r, "Saving") /\ req'[r].caught # Null /\ ~Answered(req'[r])) =>
              /\ req'[r].res = Some([status |-> 500, message |-> "Please see server logs"])
              /\ The(req'[r].res).message \notin StoreErrorDetails
              /\ req'[r].caught \subseteq console'
              /\ store' = store
              /\ nextId' = nextId]_vars

\* C15 witness: a signUp met a failure of the store and answered 500, the
\* failure in the log and no row for its email in the store.
C15_Witness ==
    \E r \in Reqs :
        /\ req[r].pc = "Returned" /\ req[r].entity # Null
        /\ req[r].caught = Some(ConnectionFailure)
        /\ The(req[r].res).status = 500
        /\ ConnectionFailure \in console
        /\ RowsOf(store, The(req[r].entity).email) = {}

\* C19: every signUp that has finished has either returned the user it
\* created or thrown 400 Bad Request or 500 Internal Server Error; none has
\* returned the text after the try/catch.
C19_SignUpReturnsUserOrThrows ==
    \A r \in Reqs :
        req[r].pc = "Returned" =>
            LET res == The(req[r].res)
            IN  /\ req[r].res # Null
                /\ "body" \notin DOMAIN res
                /\ \/ /\ res.status = 201
                      /\ DOMAIN res = {"status", "user"}
                      /\ res.user.email = The(req[r].entity).email
                      /\ req[r].caught = Null
                   \/ /\ res.status \in {400, 500}
                      /\ DOMAIN res = {"status", "message"}
                      /\ req[r].caught # Null

\* C19 witness: one signUp has returned its user and another, after a
\* failure of the store, has thrown.
C19_Witness ==
    \E r1, r2 \in Reqs :
        /\ req[r1].pc = "Returned" /\ The(req[r1].res).status = 201
        /\ req[r2].pc = "Returned" /\ The(req[r2].res).status = 500
        /\ req[r2].caught = Some(ConnectionFailure)

\* C18: when validate accepts a token, the principal it returns is a row of
\* the store as it is then, with the email of the token's subject and
\* isActive = true; an accepted request always carries such a user, a
\* rejected one none.
C18_PrincipalIsTheTokensUser ==
    /\ [][\A r \in Reqs :
             (Leaves(r, "Validating") /\ req'[r].pc = "Authenticated") =>
                 \E u \in store :
                     /\ req'[r].user = Some(u)
                     /\ u.email = The(req[r].payload).email
                     /\ u.isActive]_vars
    /\ [](\A r \in Reqs :
             /\ req[r].pc \in {"Authenticated", "Authorized", "Forbidden"} =>
                   /\ Cardinality(req[r].user) = 1
                   /\ \A u \in req[r].user :
                         /\ u.email = SubjectOf(BearerOf(req[r].rawHeaders))
                         /\ u.isActive
             /\ req[r].pc = "Rejected" => req[r].user = Null)

\* C18 witness: with two users in the store, a request was accepted with
\* the user its token names, the other user being the first row.
C18_Witness ==
    \E r \in Reqs :
        /\ req[r].pc = "Authenticated"
        /\ Cardinality(store) = 2
        /\ \E u \in req[r].user :
              /\ u.email = SubjectOf(BearerOf(req[r].rawHeaders))
              /\ \E v \in store : v.email # u.email /\ v.id < u.id

\* A handler is dispatched for slot r in this step.
Dispatched(r) ==
    /\ req[r].pc \in {"Open", "Authorized"}
    /\ req[r].res = Null
    /\ req'[r].res # Null

\* C16: GetUser returns the whole user the guard attached when no key is
\* given and the named attribute of it when a key is given, and fails with
\* MissingContext on a request that carries no user because no guard ran;
\* the user attached to a request stays as it is until the request ends.
C16_GetUser ==
    /\ [][\A r \in Reqs :
             (Dispatched(r) /\ req'[r].pc = "Accessed") =>
                 LET out == The(req'[r].res) IN
                 IF req[r].pc = "Open"
                 THEN /\ out.user.thrown = Some("MissingContext")
                      /\ out.user.value = Null
                 ELSE /\ out.user.thrown = Null
                      /\ \E u \in req[r].user :
                            /\ out.data = "" => out.user.value = Some(u)
                            /\ out.data = "fullName" => out.user.value = Some(u.fullName)
                            /\ out.data = "email" => out.user.value = Some(u.email)]_vars
    /\ [][\A r \in Reqs :
             (Dispatched(r) /\ req'[r].pc = "Authorized") =>
                 \E u \in req[r].user : The(req'[r].res).user = u.fullName]_vars
    /\ [][\A r \in Reqs :
             req[r].user # Null =>
                 req'[r].user = req[r].user \/ req'[r].pc = "idle"]_vars

\* C16 witness: one handler behind the guard was given the whole user, while
\* another on an open route failed with MissingContext.
C16_Witness ==
    \E r, q \in Reqs :
        /\ req[r].pc = "Accessed" /\ req[q].pc = "Accessed"
        /\ req[r].user # Null
        /\ \E o \in req[r].res : o.data = "" /\ o.user.value = req[r].user
        /\ req[q].user = Null
        /\ \E o \in req[q].res : o.data = "fullName" /\ o.user.thrown # Null

\* C17: RawHeaders hands the handler the header list of the request as it
\* was received, element for element and in order, whatever its data
\* argument, and the request is the same after it as before; the header list
\* of a request never changes while the request lives.
C17_RawHeaders ==
    /\ [][\A r \in Reqs :
             Dispatched(r) =>
                 /\ The(req'[r].res).rawHeader = req[r].rawHeaders
                 /\ \A f \in {"rawHeaders", "required", "payload", "user",
                              "entity", "login", "caught"} :
                       req'[r][f] = req[r][f]]_vars
    /\ [][\A r \in Reqs :
             (req[r].pc # "idle" /\ req'[r].pc # "idle") =>
                 req'[r].rawHeaders = req[r].rawHeaders]_vars
    /\ [](\A r \in Reqs, d1, d2 \in AccessorKeys :
             RawHeaders(d1, req[r]) = RawHeaders(d2, req[r]))

\* C17 witness: a handler asked with a key was given a list of two header
\* pairs, the one its request arrived with.
C17_Witness ==
    \E r \in Reqs :
        /\ req[r].pc = "Accessed"
        /\ Len(req[r].rawHeaders) = 4
        /\ \E o \in req[r].res : o.data = "email" /\ o.rawHeader = req[r].rawHeaders

====
